---- MODULE Spec2Model ----
(***************************************************************************)
(* A model of torii's GraphQL entity object                                *)
(* (crates/torii/graphql/src/object/entity.rs):                            *)
(*   - the table name a schema path is mapped to,                          *)
(*   - model_data_recursive_query, the recursive reconstruction of a model *)
(*     value from the normalized tables,                                   *)
(*   - the `models` relation field (model_union_field),                    *)
(*   - the entityUpdated subscription,                                     *)
(* and of the dojo::contract plugin (crates/dojo-lang/src/contract.rs):    *)
(*   - rewrite_parameters and rewrite_function,                            *)
(*   - from_module, the generation of the contract module.                 *)
(***************************************************************************)
EXTENDS Integers, Sequences, FiniteSets, TLC

VARIABLES
    tn_path,   \* SpecTableName: the path handed to the table naming
    tn_table,   \* SpecTableName: the table name computed for tn_path
    tn_pc,        \* SpecTableName: "input" before, "done" after the naming
    published,    \* SpecSubscription: the entities published to the broker, in order
    subs,         \* SpecSubscription: the entityUpdated subscriptions
    db,           \* Spec: the store (models, entity_model and the model tables)
    call,         \* Spec: the last request made of the query layer
    result,       \* Spec: what that request returned, and the queries it issued
    contract_in,  \* SpecContract: the syntax handed to the dojo::contract plugin
    contract_out, \* SpecContract: what the plugin made of it
    contract_pc   \* SpecContract: "input" before, "done" after the plugin ran

tn_vars == <<tn_path, tn_table, tn_pc>>
sub_vars == <<published, subs>>
query_vars == <<db, call, result>>
contract_vars == <<contract_in, contract_out, contract_pc>>
vars == <<tn_path, tn_table, tn_pc, published, subs, db, call, result,
          contract_in, contract_out, contract_pc>>

\* Option<T>: None, Some(x).
None == <<>>
Some(x) == <<x>>
IsSome(o) == o # <<>>
Unwrap(o) == o[1]

(***************************************************************************)
(* Strings.  TLC strings support Len, SubSeq and \o.                       *)
(***************************************************************************)

\* Bounds of the table naming check.
MaxSegLen == 2
MaxPathLen == 3

\* The characters path segments are drawn from ("_" is what the prefix
\* removal looks for).
Alphabet == {"a", "_"}

RECURSIVE StringsUpTo(_)
StringsUpTo(n) ==
    IF n = 0 THEN {""}
    ELSE LET shorter == StringsUpTo(n - 1)
         IN  shorter \cup {s \o c : s \in shorter, c \in Alphabet}

Segments == StringsUpTo(MaxSegLen) \ {""}

RECURSIVE PathsOfLen(_)
PathsOfLen(n) ==
    IF n = 0 THEN {<<>>}
    ELSE {Append(p, s) : p \in PathsOfLen(n - 1), s \in Segments}

Paths == UNION {PathsOfLen(n) : n \in 1..MaxPathLen}

StartsWith(s, p) == Len(p) <= Len(s) /\ SubSeq(s, 1, Len(p)) = p

\* [T]::join(sep): the elements separated by sep.
RECURSIVE Join(_, _)
Join(segs, sep) ==
    IF segs = <<>> THEN ""
    ELSE IF Len(segs) = 1 THEN segs[1]
    ELSE segs[1] \o sep \o Join(Tail(segs), sep)

\* str::replace(from, to) for a non-empty `from`: every non-overlapping match,
\* found left to right, is replaced.
RECURSIVE Replace(_, _, _)
Replace(s, from, to) ==
    IF Len(s) < Len(from) THEN s
    ELSE IF StartsWith(s, from)
         THEN to \o Replace(SubSeq(s, Len(from) + 1, Len(s)), from, to)
         ELSE SubSeq(s, 1, 1) \o Replace(SubSeq(s, 2, Len(s)), from, to)

\* str::replacen(from, to, 1): only the first match is replaced.
RECURSIVE ReplaceFirst(_, _, _)
ReplaceFirst(s, from, to) ==
    IF Len(s) < Len(from) THEN s
    ELSE IF StartsWith(s, from)
         THEN to \o SubSeq(s, Len(from) + 1, Len(s))
         ELSE SubSeq(s, 1, 1) \o ReplaceFirst(SubSeq(s, 2, Len(s)), from, to)

\* let namespace = format!("{}_", path_array[0]);
Namespace(path) == path[1] \o "_"

TableNameFirstOnly(path) == ReplaceFirst(Join(path, "$"), Namespace(path), "")

\* let table_name = &path_array.join("$").replace(&namespace, "");
TableName(path) == Replace(Join(path, "$"), Namespace(path), "")

(***************************************************************************)
(* SpecTableName: the table naming applied to bounded paths.               *)
(***************************************************************************)

InitTableName ==
    /\ tn_path \in Paths
    /\ tn_table = ""
    /\ tn_pc = "input"
    /\ published = <<>>
    /\ subs = <<>>
    /\ db = <<>>
    /\ call = <<>>
    /\ result = <<>>
    /\ contract_in = <<>>
    /\ contract_out = <<>>
    /\ contract_pc = "off"

ComputeTableName ==
    /\ tn_pc = "input"
    /\ tn_table' = TableName(tn_path)
    /\ tn_pc' = "done"
    /\ UNCHANGED <<contract_vars, tn_path, sub_vars, query_vars>>

NextTableName == ComputeTableName

SpecTableName == InitTableName /\ [][NextTableName]_vars

(***************************************************************************)
(* C6: the table name of a path.                                           *)
(***************************************************************************)

Joined == Join(tn_path, "$")

\* The prefix removed from the front of a string only (str::strip_prefix).
StripFront(s, p) == IF StartsWith(s, p) THEN SubSeq(s, Len(p) + 1, Len(s)) ELSE s

\* p occurs in s at position i.
OccursAt(s, p, i) == i + Len(p) - 1 <= Len(s) /\ SubSeq(s, i, i + Len(p) - 1) = p

Occurrences(s, p) == {i \in 1..Len(s) : OccursAt(s, p, i)}

\* A set of match positions as a left-to-right scan selects them: the
\* matches do not overlap, and an occurrence that is not selected overlaps a
\* selected one that starts before it.
LeftmostMatches(s, p, M) ==
    /\ \A i, j \in M : i < j => i + Len(p) <= j
    /\ \A i \in Occurrences(s, p) \ M : \E j \in M : j < i /\ i < j + Len(p)

\* s without the characters that the matches at M cover.
RECURSIVE Uncovered(_, _, _, _)
Uncovered(s, n, M, i) ==
    IF i > Len(s) THEN ""
    ELSE (IF \E j \in M : j <= i /\ i < j + n THEN "" ELSE SubSeq(s, i, i))
         \o Uncovered(s, n, M, i + 1)

\* C6 as stated: the table name is the joined path with "<root>_" removed
\* from the front of the joined string only, occurrences elsewhere intact.
C6_FrontOnly ==
    tn_pc = "done" =>
        tn_table = StripFront(Joined, Namespace(tn_path))

\* C6 (amended): the table name is the path's segments joined by "$" with
\* every occurrence of "<root>_" removed, wherever it lies in the joined
\* string (the non-overlapping matches of a left-to-right scan); a path of
\* length 1 maps to the root model's own name.
C6_TableName ==
    tn_pc = "done" =>
        /\ \E M \in SUBSET Occurrences(Joined, Namespace(tn_path)) :
              /\ LeftmostMatches(Joined, Namespace(tn_path), M)
              /\ tn_table = Uncovered(Joined, Len(Namespace(tn_path)), M, 1)
        /\ Len(tn_path) = 1 => tn_table = tn_path[1]

\* A path whose joined string holds "<root>_" twice, both past the front, has
\* been named.
C6_Witness ==
    /\ tn_pc = "done"
    /\ Len(tn_path) > 1
    /\ Cardinality(Occurrences(Joined, Namespace(tn_path))) >= 2
    /\ ~StartsWith(Joined, Namespace(tn_path))

(***************************************************************************)
(* async_graphql::Value and ValueMapping (an IndexMap<Name, Value>: the    *)
(* entries in insertion order).                                            *)
(***************************************************************************)

VNull == [k |-> "Null", v |-> <<>>]
VString(str) == [k |-> "String", v |-> str]
VList(items) == [k |-> "List", v |-> items]
VObject(map) == [k |-> "Object", v |-> map]

\* IndexMap::get
MapHas(map, name) == \E i \in 1..Len(map) : map[i][1] = name
MapGet(map, name) == map[CHOOSE i \in 1..Len(map) : map[i][1] = name][2]

\* IndexMap::insert: an existing key keeps its place and takes the new value,
\* a new key goes last.
MapInsert(map, name, value) ==
    IF MapHas(map, name)
    THEN [i \in 1..Len(map) |-> IF map[i][1] = name THEN <<name, value>> ELSE map[i]]
    ELSE Append(map, <<name, value>>)

(***************************************************************************)
(* The entityUpdated subscription.                                         *)
(***************************************************************************)

\* Bounds of the subscription check.
MaxSubs == 1
MaxPublish == 3

EntityIds == {"0x1", "0x2"}

\* torii_core::types::Entity.keys of the entities the writer publishes: the
\* key components, each followed by "/".
EntityKeys(id) == IF id = "0x1" THEN "0x1/" ELSE "0x2/0x7/"

\* The `id` argument of a subscription request: absent, a string, or a
\* value that is no string (an ID written as a number).
IdArgs ==
    {None} \cup {Some([kind |-> "String", v |-> e]) : e \in EntityIds}
           \cup {Some([kind |-> "Number", v |-> "1"])}

\* ValueAccessor::string(): the string of a string value, an error otherwise.
AccessString(value) ==
    IF value.kind = "String" THEN [ok |-> TRUE, v |-> value.v]
    ELSE [ok |-> FALSE, v |-> "internal: not a string"]

\* str::split(sep) for a one-character separator.
RECURSIVE SplitFrom(_, _, _, _)
SplitFrom(str, sep, i, cur) ==
    IF i > Len(str) THEN <<cur>>
    ELSE IF SubSeq(str, i, i) = sep
         THEN <<cur>> \o SplitFrom(str, sep, i + 1, "")
         ELSE SplitFrom(str, sep, i + 1, cur \o SubSeq(str, i, i))

Split(str, sep) == SplitFrom(str, sep, 1, "")

\* DateTime::format(DATETIME_FORMAT).to_string(): the instant rendered in the
\* one fixed textual format.
FormatDateTime(t) == "T" \o ToString(t)

\* EntityObject::value_mapping
value_mapping(entity) ==
    LET keys == SelectSeq(Split(entity.keys, "/"), LAMBDA key : key # "")
    IN  <<
          <<"id", VString(entity.id)>>,
          <<"keys", VList([i \in 1..Len(keys) |-> VString(keys[i])])>>,
          <<"eventId", VString(entity.event_id)>>,
          <<"createdAt", VString(FormatDateTime(entity.created_at))>>,
          <<"updatedAt", VString(FormatDateTime(entity.updated_at))>>,
          <<"executedAt", VString(FormatDateTime(entity.executed_at))>>
        >>

\* The closure given to filter_map: what the stream yields for an entity the
\* broker hands over, None when the entity is filtered out.
EntityFilterDropsUnfiltered(id, entity) ==
    IF id = Some(entity.id)
    THEN Some(VObject(value_mapping(entity)))
    ELSE None

EntityFilter(id, entity) ==
    IF id = None \/ id = Some(entity.id)
    THEN Some(VObject(value_mapping(entity)))
    ELSE None

\* A subscription slot nobody has used yet.
IdleSub ==
    [state |-> "Idle", arg |-> None, id |-> None, queue |-> <<>>, delivered |-> <<>>,
     since |-> 0, until |-> 0, polled |-> 0, cancelled |-> FALSE]

\* SimpleBroker::<Entity>::subscribe(): a new receiver, which holds nothing
\* of what was published before.
BrokerSubscribe == <<>>

\* SimpleBroker::<Entity>::publish(entity): the entity is handed to every
\* subscriber of the fan-out set; the channels are unbounded.
BrokerPublish(all, item) ==
    [s \in DOMAIN all |->
        IF all[s].state = "Active"
        THEN [all[s] EXCEPT !.queue = Append(@, item)]
        ELSE all[s]]

\* The write path publishes an entity after a committed change.
Publish(eid) ==
    /\ Len(published) < MaxPublish
    /\ LET n == Len(published) + 1
           entity == [id |-> eid, keys |-> EntityKeys(eid),
                      event_id |-> ToString(n),
                      created_at |-> 0, updated_at |-> n, executed_at |-> n]
           item == [pos |-> n, entity |-> entity]
       IN  /\ published' = Append(published, item)
           /\ subs' = BrokerPublish(subs, item)
    /\ UNCHANGED <<contract_vars, tn_vars, query_vars>>

\* A subscription that starts with the history replayed into its stream.
SubscribeEntityUpdatedReplay(s, arg) ==
    /\ subs[s].state = "Idle"
    /\ subs' = [subs EXCEPT ![s] =
                  [@ EXCEPT !.state = "Active", !.arg = arg, !.queue = published,
                            !.since = Len(published)]]
    /\ UNCHANGED <<contract_vars, tn_vars, query_vars, published>>

\* A resolver that takes an id that is no string for no id at all.
SubscribeEntityUpdatedLenient(s, arg) ==
    /\ subs[s].state = "Idle"
    /\ LET id == IF IsSome(arg) THEN AccessString(Unwrap(arg)) ELSE [ok |-> TRUE, v |-> ""]
       IN  subs' = [subs EXCEPT ![s] =
                      [@ EXCEPT !.state = "Active",
                                !.arg = arg,
                                !.id = IF IsSome(arg) /\ id.ok THEN Some(id.v) ELSE None,
                                !.queue = BrokerSubscribe,
                                !.since = Len(published)]]
    /\ UNCHANGED <<contract_vars, tn_vars, query_vars, published>>

\* The entityUpdated resolver: the `id` argument is read; a present id that is
\* no string fails the resolver before the broker is subscribed to.  arg and
\* since record the request: its argument and what was published before it.
SubscribeEntityUpdated(s, arg) ==
    /\ subs[s].state = "Idle"
    /\ LET id == IF IsSome(arg) THEN AccessString(Unwrap(arg)) ELSE [ok |-> TRUE, v |-> ""]
       IN  IF IsSome(arg) /\ ~id.ok
           THEN subs' = [subs EXCEPT ![s] = [@ EXCEPT !.state = "Rejected",
                                                     !.arg = arg,
                                                     !.since = Len(published)]]
           ELSE subs' = [subs EXCEPT ![s] =
                           [@ EXCEPT !.state = "Active",
                                     !.arg = arg,
                                     !.id = IF IsSome(arg) THEN Some(id.v) ELSE None,
                                     !.queue = BrokerSubscribe,
                                     !.since = Len(published)]]
    /\ UNCHANGED <<contract_vars, tn_vars, query_vars, published>>

\* The client polls the stream: the next entity of the channel goes through
\* the filter and is delivered or passed over; the stream stays open.
PollNext(s) ==
    /\ subs[s].state = "Active"
    /\ subs[s].queue # <<>>
    /\ LET item == Head(subs[s].queue)
           out == EntityFilter(subs[s].id, item.entity)
       IN  subs' = [subs EXCEPT ![s] =
                      [@ EXCEPT !.queue = Tail(@),
                                !.polled = @ + 1,
                                !.delivered =
                                   IF IsSome(out)
                                   THEN Append(@, [pos |-> item.pos, value |-> Unwrap(out)])
                                   ELSE @]]
    /\ UNCHANGED <<contract_vars, tn_vars, query_vars, published>>

\* The consumer disconnects or cancels: the stream is dropped, and with it
\* the receiver, which leaves the fan-out set.
Cancel(s) ==
    /\ subs[s].state = "Active"
    /\ subs' = [subs EXCEPT ![s] =
                  [@ EXCEPT !.state = "Closed", !.queue = <<>>,
                            !.until = Len(published), !.cancelled = TRUE]]
    /\ UNCHANGED <<contract_vars, tn_vars, query_vars, published>>

InitSubscription ==
    /\ published = <<>>
    /\ subs = [s \in 1..MaxSubs |-> IdleSub]
    /\ tn_path = <<>>
    /\ tn_table = ""
    /\ tn_pc = "off"
    /\ db = <<>>
    /\ call = <<>>
    /\ result = <<>>
    /\ contract_in = <<>>
    /\ contract_out = <<>>
    /\ contract_pc = "off"

NextSubscription ==
    \/ \E eid \in EntityIds : Publish(eid)
    \/ \E s \in 1..MaxSubs, arg \in IdArgs : SubscribeEntityUpdated(s, arg)
    \/ \E s \in 1..MaxSubs : PollNext(s)
    \/ \E s \in 1..MaxSubs : Cancel(s)

SpecSubscription == InitSubscription /\ [][NextSubscription]_vars

(***************************************************************************)
(* C4, C10: what an entityUpdated subscription delivers.                   *)
(***************************************************************************)

Established(s) == subs[s].state \in {"Active", "Closed"}

\* The entities published while subscription s was Active, in publish order.
PublishedWhileActive(s) ==
    SubSeq(published, subs[s].since + 1,
           IF subs[s].state = "Closed" THEN subs[s].until ELSE Len(published))

\* The entities subscription s is to forward: all of them without an id,
\* those of the entity X with id = X.
Wanted(s, item) == subs[s].id = None \/ subs[s].id = Some(item.entity.id)

C10_NoReplayNoBacklog ==
    [][\A s \in 1..MaxSubs :
          /\ Established(s)' =>
                \A i \in 1..Len(subs'[s].delivered) :
                    /\ subs'[s].since < subs'[s].delivered[i].pos
                    /\ subs'[s].delivered[i].pos <=
                          (IF subs'[s].state = "Closed" THEN subs'[s].until
                           ELSE Len(published'))
          /\ subs[s].state = "Closed" =>
                /\ subs'[s].state = "Closed"
                /\ subs'[s].delivered = subs[s].delivered]_vars

\* A subscription that began after a publish delivered an entity, was
\* cancelled, and another entity was published after that.
C10_Witness ==
    \E s \in 1..MaxSubs :
        /\ subs[s].state = "Closed"
        /\ subs[s].since > 0
        /\ subs[s].delivered # <<>>
        /\ subs[s].until < Len(published)

(***************************************************************************)
(* The schema: TypeData and TypeMapping (an IndexMap<Name, TypeData>, the  *)
(* fields in declaration order).                                           *)
(***************************************************************************)

Simple == [kind |-> "Simple"]
Nested(mapping) == [kind |-> "Nested", mapping |-> mapping]
List(inner) == [kind |-> "List", inner |-> inner]
Union(types) == [kind |-> "Union", types |-> types]

\* The registered models, in the order of the `models` table.
ModelNames == <<"Position", "Inventory", "Moves", "Shape", "Player", "Party", "Fleet">>

\* The TypeMapping each model was registered with.
TypeMappingOf(name) ==
    CASE name = "Position" ->
            << <<"x", Simple>>, <<"y", Simple>> >>
      [] name = "Inventory" ->
            << <<"items", List(Simple)>> >>
      [] name = "Moves" ->
            \* an enum whose variants carry a lone scalar
            << <<"dir", Union(<< <<"A_Dir", Nested(<< <<"value", Simple>> >>)>>,
                                 <<"B_Dir", Nested(<< <<"value", Simple>> >>)>> >>)>> >>
      [] name = "Shape" ->
            \* an enum whose variants are records
            << <<"kind", Union(<< <<"Sq_Kind", Nested(<< <<"w", Simple>> >>)>>,
                                  <<"Ci_Kind", Nested(<< <<"r", Simple>> >>)>> >>)>> >>
      [] name = "Player" ->
            << <<"hp", Simple>>, <<"pos", Nested(<< <<"x", Simple>> >>)>> >>
      [] name = "Party" ->
            << <<"members", List(Nested(<< <<"hp", Simple>> >>))>> >>
      [] name = "Fleet" ->
            \* a list of enums: one variant is a record, the other a lone scalar
            << <<"ships", List(Union(<< <<"Sq_Ship", Nested(<< <<"w", Simple>> >>)>>,
                                        <<"Ci_Ship", Nested(<< <<"value", Simple>> >>)>> >>))>> >>

\* The id of a model: the hash of its name.
ModelId(name) == "#" \o name

(***************************************************************************)
(* The store.  db.models and db.entity_model are the two relations the     *)
(* `models` field joins; db.tables maps a table name to its rows, in the   *)
(* order a SELECT without ORDER BY returns them.                           *)
(***************************************************************************)

\* Bounds of the reconstruction check.
MaxListLen == 3
MaxAttached == 2
MaxQueries == 3

Row(entity_id, idx, cols) == [entity_id |-> entity_id, idx |-> idx, cols |-> cols]

\* The column a member `name` is stored in.
Column(name) == "external_" \o name

\* The i-th element the writer stores in a list.
Element(i) == ToString(4 + i)

\* What the write path stores for entity e when it sets a model: the rows of
\* e in each table of the model.  One image per value the writer may set.
ImagesOf(name, e) ==
    CASE name = "Position" ->
            { "Position" :> << Row(e, 0, << <<Column("x"), "1">>, <<Column("y"), "2">> >>) >> }
      [] name = "Inventory" ->
            { ("Inventory" :> << Row(e, 0, <<>>) >>)
              @@ ("Inventory$items" :>
                    [i \in 1..k |-> Row(e, i - 1, << <<Column("data"), Element(i)>> >>)])
              : k \in 0..MaxListLen }
      [] name = "Moves" ->
            { "Moves" :> << Row(e, 0, << <<Column("dir"), tag>> >>) >> : tag \in {"A", "B"} }
      [] name = "Shape" ->
            { ("Shape" :> << Row(e, 0, <<>>) >>)
              @@ ("Shape$kind$Sq" :> << Row(e, 0, << <<Column("w"), "3">> >>) >>)
              @@ ("Shape$kind$Ci" :> <<>>),
              ("Shape" :> << Row(e, 0, <<>>) >>)
              @@ ("Shape$kind$Sq" :> <<>>)
              @@ ("Shape$kind$Ci" :> << Row(e, 0, << <<Column("r"), "6">> >>) >>) }
      [] name = "Player" ->
            { ("Player" :> << Row(e, 0, << <<Column("hp"), "9">> >>) >>)
              @@ ("Player$pos" :> << Row(e, 0, << <<Column("x"), "4">> >>) >>) }
      [] name = "Party" ->
            { ("Party" :> << Row(e, 0, <<>>) >>)
              @@ ("Party$members" :> [i \in 1..k |-> Row(e, i - 1, <<>>)])
              @@ ("Party$members$data" :>
                    [i \in 1..k |-> Row(e, i - 1, << <<Column("hp"), Element(i)>> >>)])
              : k \in 0..MaxListLen }
      [] name = "Fleet" ->
            \* the element rows carry the tag/value column; the second element
            \* is of the scalar variant and has no row in the record's table
            { ("Fleet" :> << Row(e, 0, <<>>) >>)
              @@ ("Fleet$ships" :>
                    [i \in 1..k |-> Row(e, i - 1, << <<Column("data"), Element(i)>> >>)])
              @@ ("Fleet$ships$data$Sq" :>
                    SelectSeq([i \in 1..k |-> Row(e, i - 1, << <<Column("w"), Element(i)>> >>)],
                              LAMBDA row : row.idx # 1))
              : k \in 0..MaxListLen }

\* The tables of the registered models.
AllTables ==
    UNION {DOMAIN img : img \in UNION {ImagesOf(ModelNames[m], "0x1") : m \in 1..Len(ModelNames)}}

\* The store the query layer starts on: every model registered, its tables
\* created, and entity "0x2" holding a Position and an Inventory.
InitialStore ==
    [models |-> [m \in 1..Len(ModelNames) |-> [id |-> ModelId(ModelNames[m]), name |-> ModelNames[m]]],
     entity_model |-> {<<"0x2", ModelId("Position")>>, <<"0x2", ModelId("Inventory")>>},
     tables |->
        [t \in AllTables |->
            CASE t = "Position" ->
                    << Row("0x2", 0, << <<Column("x"), "8">>, <<Column("y"), "9">> >>) >>
              [] t = "Inventory" -> << Row("0x2", 0, <<>>) >>
              [] t = "Inventory$items" ->
                    << Row("0x2", 0, << <<Column("data"), "8">> >>),
                       Row("0x2", 1, << <<Column("data"), "9">> >>) >>
              [] OTHER -> <<>>]]

\* The write path sets model `name` of entity e to the value stored as img:
\* the rows of e in the model's tables are replaced, and the model is
\* attached to e.  call and result then hold no request: they describe the
\* last request made since the last write.
SetEntity(e, name, img) ==
    /\ \/ <<e, ModelId(name)>> \in db.entity_model
       \/ Cardinality({em \in db.entity_model : em[1] = e}) < MaxAttached
    /\ db' = [db EXCEPT
                !.entity_model = @ \cup {<<e, ModelId(name)>>},
                !.tables = [t \in DOMAIN @ |->
                              IF t \in DOMAIN img
                              THEN SelectSeq(@[t], LAMBDA row : row.entity_id # e) \o img[t]
                              ELSE @[t]]]
    /\ call' = [op |-> "none", path |-> <<>>, entity_id |-> "", idx |-> None,
                type_mapping |-> <<>>, fail |-> 0]
    /\ result' = [out |-> "none", val |-> VNull, log |-> <<>>]
    /\ UNCHANGED <<contract_vars, tn_vars, sub_vars>>

(***************************************************************************)
(* model_data_recursive_query.  The queries of one request run one after   *)
(* the other on one connection; st.log holds the queries issued so far,    *)
(* and the st.fail-th query of the request fails in the store (0: none).   *)
(***************************************************************************)

Ok(st, val) == [st |-> st, out |-> "ok", val |-> val]
\* Err(e), returned through `?`
Err(st, msg) == [st |-> st, out |-> "err", val |-> [k |-> "Error", v |-> msg]]
\* unreachable!() and unwrap() on None: the task panics
Panic(st, msg) == [st |-> st, out |-> "panic", val |-> [k |-> "Panic", v |-> msg]]

Issue(st, op, sql) == [st EXCEPT !.log = Append(@, [op |-> op, sql |-> sql])]
\* The query just issued is the one that fails.
Fails(st) == Len(st.log) = st.fail
\* A failed query taken for one that found no rows.
StorageFailureAsNoRows(st) == Ok(st, VNull)

StorageFailure(st) == Err(st, "query " \o ToString(Len(st.log)) \o " failed")

\* Option<i64> as the text of the SQL predicate.
IdxPredicate(idx) == IF IsSome(idx) THEN "AND idx = " \o ToString(Unwrap(idx)) ELSE ""

\* The rows of SELECT * FROM table WHERE entity_id = .. [AND idx = ..].
FetchAll(table, entity_id, idx) ==
    SelectSeq(db.tables[table],
              LAMBDA row : row.entity_id = entity_id
                           /\ (IsSome(idx) => row.idx = Unwrap(idx)))

\* query::value_mapping_from_row(row, type_mapping, true): the object of the
\* row's scalar members, each read from its external_<name> column.
SimpleFields(type_mapping) == SelectSeq(type_mapping, LAMBDA f : f[2].kind = "Simple")

ValueMappingFromRow(row, type_mapping) ==
    LET fields == SimpleFields(type_mapping)
    IN  IF \E i \in 1..Len(fields) : ~MapHas(row.cols, Column(fields[i][1]))
        THEN [ok |-> FALSE, v |-> <<>>]
        ELSE [ok |-> TRUE,
              v |-> [i \in 1..Len(fields) |->
                       <<fields[i][1], VString(MapGet(row.cols, Column(fields[i][1])))>>]]

\* A child that is always asked without an idx predicate.
ChildIdxNever(rows, i) == None

\* if rows.len() > 1 { Some(idx as i64) } else { None }, for the i-th row
\* (the enumerate index counts from 0).
ChildIdx(rows, i) == IF Len(rows) > 1 THEN Some(i - 1) ELSE None

\* The assembled objects always returned as a list.
ResultShapeAlwaysList(nested_value_mappings) == VList(nested_value_mappings)

\* The tail of the function (lines 285-291): the assembled objects as a list
\* when there are several, the single one otherwise.
ResultShape(nested_value_mappings) ==
    IF Len(nested_value_mappings) > 1
    THEN VList(nested_value_mappings)
    ELSE nested_value_mappings[Len(nested_value_mappings)]

\* The List arm's match on what the child returned (lines 226-237).
UnwrapListData(st, child) ==
    IF child.k = "List"
    THEN IF \E i \in 1..Len(child.v) : child.v[i].k # "Object"
         THEN Panic(st, "unreachable")
         ELSE IF \E i \in 1..Len(child.v) : ~MapHas(child.v[i].v, "data")
              THEN Panic(st, "unwrap on None")
              ELSE Ok(st, VList([i \in 1..Len(child.v) |-> MapGet(child.v[i].v, "data")]))
    ELSE Panic(st, "unreachable")

\* Below, CHOOSE the \in {F(x) : x \in {r}} : TRUE is F(r) with r evaluated
\* once: `let x = r.await?;` followed by the rest of the function, where an
\* Err (or a panic) of r ends the function with it.

RECURSIVE model_data_recursive_query(_, _, _, _, _)
RECURSIVE RowsLoop(_, _, _, _, _, _, _, _)
RECURSIVE FieldsLoop(_, _, _, _, _, _, _, _, _)
RECURSIVE VariantsLoop(_, _, _, _, _, _, _, _, _, _)

\* The scalar payload of a union variant (lines 253-261): the external_<field>
\* column of the current table, read for the entity with fetch_one.
FetchUnionValue(st, table, entity_id, field_name) ==
    LET st1 == Issue(st, "fetch_one",
                     "SELECT " \o Column(field_name) \o " FROM " \o table
                     \o " WHERE entity_id = '" \o entity_id \o "'")
        found == IF table \in DOMAIN db.tables
                 THEN FetchAll(table, entity_id, None) ELSE <<>>
    IN  IF Fails(st1) THEN StorageFailure(st1)
        ELSE IF table \notin DOMAIN db.tables THEN Err(st1, "no such table")
        ELSE IF found = <<>> THEN Err(st1, "RowNotFound")
        ELSE IF ~MapHas(found[1].cols, Column(field_name)) THEN Err(st1, "no such column")
        ELSE Ok(st1, VObject(<< <<"value",
                                  VString(MapGet(found[1].cols, Column(field_name)))>> >>))

\* for (type_ref, mapping) in types { .. } (lines 242-274), from the k-th
\* variant on; enum_union holds the slots pushed so far.
VariantsLoop(st, path, table, entity_id, field_name, types, rows, i, k, enum_union) ==
    IF k > Len(types) THEN Ok(st, enum_union)
    ELSE IF types[k][2].kind # "Nested" THEN Panic(st, "unreachable")
    ELSE
    LET type_ref == types[k][1]
        mapping == types[k][2].mapping
        nested_path == path \o <<field_name, Split(type_ref, "_")[1]>>
    IN  CHOOSE the \in {
            IF data.out # "ok" THEN data
            ELSE VariantsLoop(data.st, path, table, entity_id, field_name, types, rows, i,
                              k + 1, Append(enum_union, data.val))
            : data \in {IF MapHas(mapping, "value")
                        THEN FetchUnionValue(st, table, entity_id, field_name)
                        ELSE model_data_recursive_query(st, nested_path, entity_id,
                                                        ChildIdx(rows, i), mapping)}} : TRUE

\* The Nested arm (lines 200-212).
NestedField(st, path, entity_id, field_name, type_data, rows, i, nested_value_mapping) ==
    CHOOSE the \in {
        IF nested_values.out # "ok" THEN nested_values
        ELSE Ok(nested_values.st,
                MapInsert(nested_value_mapping, field_name, nested_values.val))
        : nested_values \in {model_data_recursive_query(
                                 st, Append(path, field_name), entity_id,
                                 ChildIdx(rows, i), type_data.mapping)}} : TRUE

\* The List arm (lines 213-239).
ListField(st, path, entity_id, field_name, type_data, nested_value_mapping) ==
    CHOOSE the \in {
        IF child.out # "ok" THEN child
        ELSE LET data == UnwrapListData(child.st, child.val)
             IN  IF data.out # "ok" THEN data
                 ELSE Ok(data.st, MapInsert(nested_value_mapping, field_name, data.val))
        : child \in {model_data_recursive_query(
                         st, Append(path, field_name), entity_id, None,
                         << <<"data", type_data.inner>> >>)}} : TRUE

\* A Union arm that keeps the first variant's slot alone.
UnionFieldFirstSlot(st, path, table, entity_id, field_name, type_data, rows, i, nested_value_mapping) ==
    CHOOSE the \in {
        IF enum_union.out # "ok" THEN enum_union
        ELSE Ok(enum_union.st,
                MapInsert(nested_value_mapping, field_name, enum_union.val[1]))
        : enum_union \in {VariantsLoop(st, path, table, entity_id, field_name,
                                       type_data.types, rows, i, 1, <<>>)}} : TRUE

\* A Union arm that keeps the slots of the variants that have data.
UnionFieldSelected(st, path, table, entity_id, field_name, type_data, rows, i, nested_value_mapping) ==
    CHOOSE the \in {
        IF enum_union.out # "ok" THEN enum_union
        ELSE Ok(enum_union.st,
                MapInsert(nested_value_mapping, field_name,
                          VList(SelectSeq(enum_union.val, LAMBDA slot : slot # VNull))))
        : enum_union \in {VariantsLoop(st, path, table, entity_id, field_name,
                                       type_data.types, rows, i, 1, <<>>)}} : TRUE

\* The Union arm (lines 240-279).
UnionField(st, path, table, entity_id, field_name, type_data, rows, i, nested_value_mapping) ==
    CHOOSE the \in {
        IF enum_union.out # "ok" THEN enum_union
        ELSE Ok(enum_union.st,
                MapInsert(nested_value_mapping, field_name, VList(enum_union.val)))
        : enum_union \in {VariantsLoop(st, path, table, entity_id, field_name,
                                       type_data.types, rows, i, 1, <<>>)}} : TRUE

\* for (field_name, type_data) in type_mapping { .. } (lines 199-280), from
\* the j-th field on, for the i-th row.
FieldsLoop(st, path, table, entity_id, type_mapping, rows, i, j, nested_value_mapping) ==
    IF j > Len(type_mapping) THEN Ok(st, nested_value_mapping)
    ELSE
    LET field_name == type_mapping[j][1]
        type_data == type_mapping[j][2]
    IN  CHOOSE the \in {
            IF done.out # "ok" THEN done
            ELSE FieldsLoop(done.st, path, table, entity_id, type_mapping, rows, i,
                            j + 1, done.val)
            : done \in {
                CASE type_data.kind = "Nested" ->
                        NestedField(st, path, entity_id, field_name, type_data, rows, i,
                                    nested_value_mapping)
                  [] type_data.kind = "List" ->
                        ListField(st, path, entity_id, field_name, type_data,
                                  nested_value_mapping)
                  [] type_data.kind = "Union" ->
                        UnionField(st, path, table, entity_id, field_name, type_data,
                                   rows, i, nested_value_mapping)
                  [] OTHER -> Ok(st, nested_value_mapping)}} : TRUE

\* for (idx, row) in rows.iter().enumerate() { .. } (lines 196-283), from the
\* i-th row on.
RowsLoop(st, path, table, entity_id, type_mapping, rows, i, nested_value_mappings) ==
    IF i > Len(rows) THEN Ok(st, nested_value_mappings)
    ELSE
    LET base == ValueMappingFromRow(rows[i], type_mapping)
    IN  IF ~base.ok THEN Err(st, "no such column")
        ELSE CHOOSE the \in {
                IF object.out # "ok" THEN object
                ELSE RowsLoop(object.st, path, table, entity_id, type_mapping, rows,
                              i + 1, Append(nested_value_mappings, VObject(object.val)))
                : object \in {FieldsLoop(st, path, table, entity_id, type_mapping,
                                         rows, i, 1, base.v)}} : TRUE

model_data_recursive_query(st, path, entity_id, idx, type_mapping) ==
    LET table == TableName(path)
        st1 == Issue(st, "fetch_all",
                     "SELECT * FROM " \o table \o " WHERE entity_id = '" \o entity_id \o "' "
                     \o IdxPredicate(idx))
    IN  IF Fails(st1) THEN StorageFailure(st1)
        ELSE IF table \notin DOMAIN db.tables THEN Err(st1, "no such table")
        ELSE IF FetchAll(table, entity_id, idx) = <<>> THEN Ok(st1, VNull)
        ELSE CHOOSE the \in {
                IF objects.out # "ok" THEN objects
                ELSE Ok(objects.st, ResultShape(objects.val))
                : objects \in {RowsLoop(st1, path, table, entity_id, type_mapping,
                                        FetchAll(table, entity_id, idx), 1, <<>>)}} : TRUE

(***************************************************************************)
(* The `models` relation field of an entity (model_union_field).           *)
(***************************************************************************)

\* query::type_mapping_query(conn, model_id): the TypeMapping the model was
\* registered with.
TypeMappingQuery(model_id) ==
    TypeMappingOf(ModelNames[CHOOSE m \in 1..Len(ModelNames) : ModelId(ModelNames[m]) = model_id])

\* FieldValue::with_type(FieldValue::owned_any(data), name)
WithType(data, name) == [k |-> "WithType", v |-> [type |-> name, data |-> data]]

\* for (id, name) in model_ids { .. } (lines 142-161), from the n-th on.
RECURSIVE ModelsLoop(_, _, _, _, _)
ModelsLoop(st, entity_id, model_ids, n, results) ==
    IF n > Len(model_ids) THEN Ok(st, VList(results))
    ELSE
    LET id == model_ids[n].id
        name == model_ids[n].name
        st1 == Issue(st, "type_mapping_query", id)
    IN  IF Fails(st1) THEN StorageFailure(st1)
        ELSE CHOOSE the \in {
                IF data.out # "ok" THEN data
                ELSE IF data.val.k # "Object" THEN Panic(data.st, "unreachable")
                ELSE ModelsLoop(data.st, entity_id, model_ids, n + 1,
                                Append(results, WithType(data.val.v, name)))
                : data \in {model_data_recursive_query(st1, <<name>>, entity_id, None,
                                                       TypeMappingQuery(id))}} : TRUE

\* The resolver of `models` for the parent value it is given.
model_union_field(st, parent_value) ==
    IF parent_value.k # "Object"
    THEN Err(st, "incorrect value, requires Value::Object")
    ELSE
    LET st1 == Issue(st, "acquire", "")
        indexmap == parent_value.v
        st2 == Issue(st1, "fetch_all",
                     "SELECT id, name FROM models WHERE id IN "
                     \o "(SELECT model_id FROM entity_model WHERE entity_id = ?)")
    IN  IF Fails(st1) THEN StorageFailure(st1)
        ELSE IF ~MapHas(indexmap, "id") THEN Err(st1, "internal: id not found")
        ELSE IF MapGet(indexmap, "id").k # "String" THEN Err(st1, "internal: not a string")
        ELSE IF Fails(st2) THEN StorageFailure(st2)
        ELSE LET entity_id == MapGet(indexmap, "id").v
                 model_ids == SelectSeq(db.models,
                                        LAMBDA m : <<entity_id, m.id>> \in db.entity_model)
             IN  ModelsLoop(st2, entity_id, model_ids, 1, <<>>)

(***************************************************************************)
(* Spec: the write path sets models of entity "0x1" while the query layer  *)
(* answers reconstruction calls and `models` requests.                     *)
(***************************************************************************)

QueryEntities == {"0x1", "0x2"}

\* The idx arguments a caller passes.
IdxArgs == {None, Some(0), Some(1)}

\* The calls of model_data_recursive_query: a model's root with its own
\* TypeMapping, as model_union_field calls it, and the calls the function
\* makes of itself for a model's List and Nested members.
RootCalls ==
    {[path |-> <<ModelNames[m]>>, idx |-> None, type_mapping |-> TypeMappingOf(ModelNames[m])]
        : m \in 1..Len(ModelNames)}

MemberCalls ==
    UNION {
      LET type_mapping == TypeMappingOf(ModelNames[m])
      IN  { [path |-> <<ModelNames[m], type_mapping[j][1]>>,
             idx |-> idx,
             type_mapping |-> IF type_mapping[j][2].kind = "List"
                              THEN << <<"data", type_mapping[j][2].inner>> >>
                              ELSE type_mapping[j][2].mapping]
            : j \in {j \in 1..Len(type_mapping) : type_mapping[j][2].kind \in {"List", "Nested"}},
              idx \in IdxArgs }
      : m \in 1..Len(ModelNames) }

NoCall == [op |-> "none", path |-> <<>>, entity_id |-> "", idx |-> None,
           type_mapping |-> <<>>, fail |-> 0]
NoResult == [out |-> "none", val |-> VNull, log |-> <<>>]

Returned(r) == [out |-> r.out, val |-> r.val, log |-> r.st.log]

\* A call that deletes from the root table the rows it has read.
QueryConsumingRows(c, entity_id, fail) ==
    /\ call' = [op |-> "query", path |-> c.path, entity_id |-> entity_id, idx |-> c.idx,
                type_mapping |-> c.type_mapping, fail |-> fail]
    /\ call.op = "none" \/ call' = call
    /\ result' = Returned(model_data_recursive_query([log |-> <<>>, fail |-> fail],
                              c.path, entity_id, c.idx, c.type_mapping))
    /\ db' = [db EXCEPT !.tables[TableName(c.path)] =
                  SelectSeq(@, LAMBDA row : row.entity_id # entity_id)]
    /\ UNCHANGED <<contract_vars, tn_vars, sub_vars>>

\* A caller runs model_data_recursive_query; the fail-th query it issues
\* fails in the store (0: none does).  Requests are followed one at a time: a
\* request is made after a write, or the recorded one is made again.
Query(c, entity_id, fail) ==
    /\ call' = [op |-> "query", path |-> c.path, entity_id |-> entity_id, idx |-> c.idx,
                type_mapping |-> c.type_mapping, fail |-> fail]
    /\ call.op = "none" \/ call' = call
    /\ result' = Returned(model_data_recursive_query([log |-> <<>>, fail |-> fail],
                              c.path, entity_id, c.idx, c.type_mapping))
    /\ UNCHANGED <<contract_vars, db, tn_vars, sub_vars>>

\* A client asks for the `models` of an entity it has resolved.
ResolveModels(entity_id, fail) ==
    /\ call' = [NoCall EXCEPT !.op = "models", !.entity_id = entity_id, !.fail = fail]
    /\ call.op = "none" \/ call' = call
    /\ result' = Returned(model_union_field([log |-> <<>>, fail |-> fail],
                              VObject(<< <<"id", VString(entity_id)>> >>)))
    /\ UNCHANGED <<contract_vars, db, tn_vars, sub_vars>>

Init ==
    /\ db = InitialStore
    /\ call = NoCall
    /\ result = NoResult
    /\ tn_path = <<>>
    /\ tn_table = ""
    /\ tn_pc = "off"
    /\ published = <<>>
    /\ subs = <<>>
    /\ contract_in = <<>>
    /\ contract_out = <<>>
    /\ contract_pc = "off"

Next ==
    \/ \E m \in 1..Len(ModelNames) : \E img \in ImagesOf(ModelNames[m], "0x1") :
          SetEntity("0x1", ModelNames[m], img)
    \/ \E c \in RootCalls \cup MemberCalls, entity_id \in QueryEntities, fail \in 0..MaxQueries :
          Query(c, entity_id, fail)
    \/ \E entity_id \in QueryEntities, fail \in 0..MaxQueries :
          ResolveModels(entity_id, fail)

Spec == Init /\ [][Next]_vars

(***************************************************************************)
(* C1, C2, C3, C5, C7, C8, C9: what a reconstruction returns.              *)
(***************************************************************************)

\* The last request was model_data_recursive_query on a model's root, as
\* model_union_field calls it, with no query failing, and the model's root
\* table holds the entity's row.
RootQueried ==
    /\ call.op = "query"
    /\ Len(call.path) = 1
    /\ call.fail = 0
    /\ Len(FetchAll(TableName(call.path), call.entity_id, call.idx)) = 1

FieldsOfKind(type_mapping, kind) ==
    {j \in 1..Len(type_mapping) : type_mapping[j][2].kind = kind}

\* The object a row's scalar columns make for a mapping.
ScalarsOf(row, type_mapping) == ValueMappingFromRow(row, type_mapping).v

\* C1: a List field with k element rows in its auxiliary table, for every
\* k >= 0, reconstructs to an ordered sequence of exactly k elements, each
\* the row's unwrapped "data" value, in the order the rows are fetched.
C1_ListOfEveryLength ==
    RootQueried =>
        \A j \in FieldsOfKind(call.type_mapping, "List") :
            LET name == call.type_mapping[j][1]
                rows == FetchAll(TableName(Append(call.path, name)), call.entity_id, None)
            IN  /\ result.out = "ok"
                /\ result.val.k = "Object"
                /\ MapHas(result.val.v, name)
                /\ MapGet(result.val.v, name).k = "List"
                /\ Len(MapGet(result.val.v, name).v) = Len(rows)
                /\ call.type_mapping[j][2].inner.kind = "Simple" =>
                      \A i \in 1..Len(rows) :
                          MapGet(result.val.v, name).v[i]
                              = VString(MapGet(rows[i].cols, Column("data")))

\* The Union fields of two variants of the queried model.
UnionFields ==
    {j \in FieldsOfKind(call.type_mapping, "Union") : Len(call.type_mapping[j][2].types) = 2}

VariantName(j, n) == Split(call.type_mapping[j][2].types[n][1], "_")[1]
VariantMapping(j, n) == call.type_mapping[j][2].types[n][2].mapping
ScalarPayload(j) == \A n \in 1..2 : MapHas(VariantMapping(j, n), "value")
VariantRows(j, n) ==
    FetchAll(TableName(call.path \o <<call.type_mapping[j][1], VariantName(j, n)>>),
             call.entity_id, None)
RootRow == FetchAll(TableName(call.path), call.entity_id, call.idx)[1]

\* Of the variants [A, B] of Union field j, only A's storage is populated.
OnlyFirstPopulated(j) ==
    IF ScalarPayload(j)
    THEN MapGet(RootRow.cols, Column(call.type_mapping[j][1])) = VariantName(j, 1)
    ELSE Len(VariantRows(j, 1)) = 1 /\ VariantRows(j, 2) = <<>>

\* The value of variant A as it is stored.
FirstVariantValue(j) ==
    IF ScalarPayload(j)
    THEN VObject(<< <<"value", VString(MapGet(RootRow.cols, Column(call.type_mapping[j][1])))>> >>)
    ELSE VObject(ScalarsOf(VariantRows(j, 1)[1], VariantMapping(j, 1)))

UnionValue(j) == MapGet(result.val.v, call.type_mapping[j][1])

\* C2 as stated: with only A's storage populated, the field is the sequence
\* of A's value and Null, for scalar-payload and nested-record variants alike.
C2_SecondSlotNull ==
    RootQueried =>
        \A j \in UnionFields :
            OnlyFirstPopulated(j) =>
                /\ result.out = "ok"
                /\ UnionValue(j) = VList(<<FirstVariantValue(j), VNull>>)

\* C2 (amended): with only A's storage populated, the field of nested-record
\* variants [A, B] is the sequence of A's value and Null; the field of
\* scalar-payload variants holds {"value": v} in both slots, v being the
\* external_<field> column of the entity's row.
C2_UnionSlots ==
    RootQueried =>
        \A j \in UnionFields :
            OnlyFirstPopulated(j) =>
                /\ result.out = "ok"
                /\ UnionValue(j) =
                      VList(<<FirstVariantValue(j),
                              IF ScalarPayload(j) THEN FirstVariantValue(j) ELSE VNull>>)

\* A model whose Union field has nested-record variants, the first one
\* populated, has been reconstructed.
C2_Witness ==
    /\ RootQueried
    /\ result.out = "ok"
    /\ \E j \in UnionFields : ~ScalarPayload(j) /\ OnlyFirstPopulated(j)

\* The object was built from the row: it holds the row's scalar columns.
BuiltFrom(object, row) ==
    /\ object.k = "Object"
    /\ \A j \in FieldsOfKind(call.type_mapping, "Simple") :
          /\ MapHas(object.v, call.type_mapping[j][1])
          /\ MapGet(object.v, call.type_mapping[j][1])
                = VString(MapGet(row.cols, Column(call.type_mapping[j][1])))

\* C3: the number n of rows fetched for (table, entity_id, idx) decides the
\* shape of what is returned: Null for n = 0, a single Object for n = 1, the
\* ordered list of n Objects for n > 1, the i-th built from the i-th row.
C3_ResultShape ==
    call.op = "query" =>
        LET rows == FetchAll(TableName(call.path), call.entity_id, call.idx)
        IN  /\ (rows = <<>> /\ call.fail # 1) => (result.out = "ok" /\ result.val = VNull)
            /\ (Len(rows) = 1 /\ result.out = "ok") => BuiltFrom(result.val, rows[1])
            /\ (Len(rows) > 1 /\ result.out = "ok") =>
                  /\ result.val.k = "List"
                  /\ Len(result.val.v) = Len(rows)
                  /\ \A i \in 1..Len(rows) : BuiltFrom(result.val.v[i], rows[i])

\* A call that fetched several rows has returned.
C3_Witness ==
    /\ call.op = "query"
    /\ result.out = "ok"
    /\ Len(FetchAll(TableName(call.path), call.entity_id, call.idx)) > 1
    /\ FieldsOfKind(call.type_mapping, "Simple") # {}

\* C5: the `models` field of an entity resolves, for any set of attached
\* models, to one object per attached model, typed with the model's name and
\* holding what model_data_recursive_query reconstructs for [name] and no idx.
C5_OneObjectPerModel ==
    (call.op = "models" /\ call.fail = 0) =>
        LET attached == SelectSeq(db.models,
                                  LAMBDA m : <<call.entity_id, m.id>> \in db.entity_model)
        IN  /\ result.out = "ok"
            /\ result.val.k = "List"
            /\ Len(result.val.v) = Len(attached)
            /\ \A n \in 1..Len(attached) :
                  /\ result.val.v[n].v.type = attached[n].name
                  /\ VObject(result.val.v[n].v.data)
                        = model_data_recursive_query(
                              [log |-> <<>>, fail |-> 0], <<attached[n].name>>,
                              call.entity_id, None, TypeMappingOf(attached[n].name)).val

C8_FailureAborts ==
    (call.op # "none" /\ call.fail > 0 /\ Len(result.log) >= call.fail) =>
        /\ result.out = "err"
        /\ result.val = [k |-> "Error", v |-> "query " \o ToString(call.fail) \o " failed"]
        /\ Len(result.log) = call.fail

\* The third query of a reconstruction, a child's, has failed.
C8_Witness ==
    /\ call.op = "query"
    /\ Len(call.path) = 1
    /\ call.fail = 3
    /\ Len(result.log) = 3
    /\ result.out = "err"

\* C9: data that does not match the declared TypeData ends a request in a
\* returned error; the request never panics.
C9_NeverPanics == result.out # "panic"

(***************************************************************************)
(* C12, C13, C14: the child queries of a call and the Union slots of the   *)
(* objects it assembles.                                                   *)
(***************************************************************************)

\* The rows the last call fetched for itself.
CallRows == FetchAll(TableName(call.path), call.entity_id, call.idx)

\* The fetch_all queries the last request issued on a table, in order.
QueriesOn(table) ==
    LET on == SelectSeq(result.log,
                        LAMBDA q : /\ q.op = "fetch_all"
                                   /\ StartsWith(q.sql, "SELECT * FROM " \o table \o " WHERE"))
    IN  [n \in 1..Len(on) |-> on[n].sql]

\* The child queries a call with these rows is to issue on a child table: one
\* per row, with the row's position as idx when `indexed` and the rows are
\* several, without idx predicate otherwise.
ChildQueriesFor(table, rows, indexed) ==
    [i \in 1..Len(rows) |->
        "SELECT * FROM " \o table \o " WHERE entity_id = '" \o call.entity_id \o "' "
        \o (IF indexed /\ Len(rows) > 1 THEN "AND idx = " \o ToString(i - 1) ELSE "")]

\* The queries issued are the expected ones: all of them when the call has
\* returned a value, the first of them when it ended before.
IssuedAsExpected(issued, expected) ==
    /\ Len(issued) <= Len(expected)
    /\ issued = SubSeq(expected, 1, Len(issued))
    /\ result.out = "ok" => Len(issued) = Len(expected)

\* The variants of Union field j whose payload is a record of its own table.
RecordVariants(j) ==
    {n \in 1..Len(call.type_mapping[j][2].types) :
        /\ call.type_mapping[j][2].types[n][2].kind = "Nested"
        /\ ~MapHas(call.type_mapping[j][2].types[n][2].mapping, "value")}

ScalarVariants(j) ==
    {n \in 1..Len(call.type_mapping[j][2].types) :
        /\ call.type_mapping[j][2].types[n][2].kind = "Nested"
        /\ MapHas(call.type_mapping[j][2].types[n][2].mapping, "value")}

\* C13: when the call fetched several rows and the mapping has a Union field
\* with a scalar-payload variant, the {"value": v} slot of the i-th assembled
\* object carries the external_<field> value of the i-th row.
C13_ScalarSlotOfRow ==
    (call.op = "query" /\ result.out = "ok" /\ Len(CallRows) > 1) =>
        \A j \in FieldsOfKind(call.type_mapping, "Union") :
            \A n \in ScalarVariants(j) :
                \A i \in 1..Len(CallRows) :
                    MapGet(result.val.v[i].v, call.type_mapping[j][1]).v[n]
                        = VObject(<< <<"value",
                                       VString(MapGet(CallRows[i].cols,
                                                      Column(call.type_mapping[j][1])))>> >>)

\* The objects the last call assembled, one per fetched row.
Assembled == IF Len(CallRows) > 1 THEN result.val.v ELSE <<result.val>>

\* What the table of record variant n of Union field j holds for the i-th
\* fetched row, as a value: Null without a row.
RecordSlot(j, n, i) ==
    LET found == FetchAll(TableName(call.path \o <<call.type_mapping[j][1], VariantName(j, n)>>),
                          call.entity_id,
                          IF Len(CallRows) > 1 THEN Some(i - 1) ELSE None)
        objects == [r \in 1..Len(found) |-> VObject(ScalarsOf(found[r], VariantMapping(j, n)))]
    IN  IF found = <<>> THEN VNull
        ELSE IF Len(found) = 1 THEN objects[1]
        ELSE VList(objects)

\* C14: in every assembled object, the value under a Union field of n
\* declared variants is a sequence of exactly n slots, the j-th being the
\* j-th variant's: its record or Null, or the {"value": v} of a scalar one.
C14_AllVariantSlots ==
    (call.op = "query" /\ result.out = "ok" /\ CallRows # <<>>) =>
        \A i \in 1..Len(CallRows) :
            \A j \in FieldsOfKind(call.type_mapping, "Union") :
                LET types == call.type_mapping[j][2].types
                    value == MapGet(Assembled[i].v, call.type_mapping[j][1])
                IN  /\ MapHas(Assembled[i].v, call.type_mapping[j][1])
                    /\ value.k = "List"
                    /\ Len(value.v) = Len(types)
                    /\ \A n \in RecordVariants(j) : value.v[n] = RecordSlot(j, n, i)
                    /\ \A n \in ScalarVariants(j) :
                          /\ value.v[n].k = "Object"
                          /\ MapHas(value.v[n].v, "value")

\* An object was assembled whose Union field has a Null slot, and another
\* whose same slot is populated.
C14_Witness ==
    /\ call.op = "query"
    /\ result.out = "ok"
    /\ Len(CallRows) > 1
    /\ \E j \in FieldsOfKind(call.type_mapping, "Union") :
          \E n \in RecordVariants(j) :
              /\ MapGet(Assembled[1].v, call.type_mapping[j][1]).v[n] # VNull
              /\ MapGet(Assembled[2].v, call.type_mapping[j][1]).v[n] = VNull

(***************************************************************************)
(* C15: an entityUpdated request whose id is no string.                    *)
(***************************************************************************)

\* The request of subscription s came with an id that is not a string.
BadId(s) == IsSome(subs[s].arg) /\ Unwrap(subs[s].arg).kind # "String"

\* C15: a request with an id that is present and not a string is rejected:
\* the subscription does not become Active, its stream is never fed by the
\* broker and it delivers nothing, whatever is published later; a request
\* without id is established.
C15_BadIdRejected ==
    [][\A s \in 1..MaxSubs :
          /\ (subs[s].state = "Idle" /\ subs'[s].state # "Idle") =>
                /\ BadId(s)' <=> subs'[s].state = "Rejected"
                /\ subs'[s].arg = None => subs'[s].state = "Active"
          /\ subs'[s].state = "Rejected" =>
                /\ subs'[s].queue = <<>>
                /\ subs'[s].delivered = <<>>
          /\ subs[s].state = "Rejected" => subs'[s].state = "Rejected"]_vars

\* A request with a number for id was rejected, and an entity was published
\* after that.
C15_Witness ==
    \E s \in 1..MaxSubs :
        /\ subs[s].state = "Rejected"
        /\ BadId(s)
        /\ subs[s].since < Len(published)

(***************************************************************************)
(* The dojo::contract plugin (contract.rs).  A parameter is what           *)
(* syntax_utils::get_parameter_info reads of it: its modifiers, its name   *)
(* and its type.  self.diagnostics is threaded through the operators as    *)
(* `diagnostics`.                                                          *)
(***************************************************************************)

\* Bounds of the plugin check.
MaxParams == 3
MaxArgs == 2
MaxItems == 3

Param(modifiers, name, type) == [modifiers |-> modifiers, name |-> name, type |-> type]

\* The parameters a function signature is written with.
ParamUniverse ==
    { Param(<<>>, "self", "@ContractState"),
      Param(<<"ref">>, "self", "ContractState"),
      Param(<<>>, "world", "@IWorldDispatcher"),
      Param(<<"ref">>, "world", "IWorldDispatcher"),
      Param(<<>>, "world", "IWorldDispatcher"),
      Param(<<>>, "world", "felt252"),
      Param(<<>>, "w", "IWorldDispatcher"),
      Param(<<>>, "a", "felt252") }

ParamLists == UNION {[1..n -> ParamUniverse] : n \in 0..MaxParams}

\* param.as_syntax_node().get_text(db): the parameter as it is written.
ParamText(param) == Join(Append(param.modifiers, param.name \o ": " \o param.type), " ")

\* A PluginDiagnostic (the backquotes of a message are written as quotes).
Diagnostic(message, severity) == [message |-> message, severity |-> severity]

\* world_param::is_world_param(&name, &param_type)
is_world_param(name, param_type) ==
    /\ name = "world"
    /\ param_type \in {"IWorldDispatcher", "@IWorldDispatcher"}

\* self_param::check_parameter(db, &param_list): `self` is the first parameter.
check_parameter(param_list) ==
    /\ param_list # <<>>
    /\ param_list[1].name = "self"

\* world_param::parse_world_injection, from the idx-th parameter on (idx
\* counts from 0): the injection kind of a world parameter that stands
\* first, and the diagnostics of the parameters that break its rules.
\* The closure of the for_each on one parameter: has_world_injected, the
\* injection kind and the diagnostics after it.
ParseWorldParam(param, idx, has_world_injected, injection_kind, diagnostics) ==
    LET error(message) ==
            [has |-> has_world_injected, kind |-> injection_kind,
             diagnostics |-> Append(diagnostics, Diagnostic(message, "Error"))]
        same == [has |-> has_world_injected, kind |-> injection_kind,
                 diagnostics |-> diagnostics]
    IN  IF ~is_world_param(param.name, param.type)
        THEN IF param.name = "self" /\ has_world_injected
             THEN error("You cannot use 'self' and 'world' parameters together.")
             ELSE same
        ELSE IF has_world_injected
        THEN error("Only one world parameter is allowed")
        ELSE IF idx # 0
        THEN error("World parameter must be the first parameter.")
        ELSE IF "ref" \in {param.modifiers[m] : m \in 1..Len(param.modifiers)}
        THEN [has |-> TRUE, kind |-> "External", diagnostics |-> diagnostics]
        ELSE IF param.type = "IWorldDispatcher"
        THEN [has |-> TRUE, kind |-> "View",
              diagnostics |->
                  Append(diagnostics,
                         Diagnostic("World parameter must be a snapshot if 'ref' is not used.",
                                    "Error"))]
        ELSE [has |-> TRUE, kind |-> "View", diagnostics |-> diagnostics]

RECURSIVE ParseWorldLoop(_, _, _, _, _)
ParseWorldLoop(param_list, idx, has_world_injected, injection_kind, diagnostics) ==
    IF idx >= Len(param_list)
    THEN [kind |-> injection_kind, diagnostics |-> diagnostics]
    ELSE CHOOSE the \in {
            ParseWorldLoop(param_list, idx + 1, after.has, after.kind, after.diagnostics)
            : after \in {ParseWorldParam(param_list[idx + 1], idx, has_world_injected,
                                         injection_kind, diagnostics)}} : TRUE

parse_world_injection(param_list, diagnostics) ==
    ParseWorldLoop(param_list, 0, FALSE, "None", diagnostics)

\* param_list.elements(db).iter().filter_map(..).collect() (lines 400-414)
KeptParams(param_list) ==
    LET kept == SelectSeq(param_list, LAMBDA param : ~is_world_param(param.name, param.type))
    IN  [i \in 1..Len(kept) |-> ParamText(kept[i])]

\* The rest of rewrite_parameters (lines 392-430) for what
\* parse_world_injection returned.
RewrittenParameters(param_list, is_self_used, parsed) ==
    LET params == KeptParams(param_list)
    IN  [params_str |->
            Join(CASE parsed.kind = "None" ->
                        IF ~is_self_used THEN <<"self: @ContractState">> \o params ELSE params
                   [] parsed.kind = "View" -> <<"self: @ContractState">> \o params
                   [] parsed.kind = "External" -> <<"ref self: ContractState">> \o params,
                 ", "),
         was_world_injected |-> parsed.kind # "None",
         diagnostics |->
            IF is_self_used /\ parsed.kind # "None"
            THEN Append(parsed.diagnostics,
                        Diagnostic("You cannot use 'self' and 'world' parameters together.",
                                   "Error"))
            ELSE parsed.diagnostics]

\* DojoContract::rewrite_parameters: (params_str, was_world_injected), and
\* self.diagnostics after the call.
rewrite_parameters(diagnostics, param_list) ==
    CHOOSE the \in {
        RewrittenParameters(param_list, check_parameter(param_list), parsed)
        : parsed \in {parse_world_injection(param_list, diagnostics)}} : TRUE

\* A function of an impl block: its parameters and the statements of its
\* body, each statement as it is written.
FunctionWithBody(name, param_list, statements) ==
    [name |-> name, param_list |-> param_list, statements |-> statements]

\* RewriteNode::from_ast(&fn_ast): the function as it is written; the
\* children the plugin may modify are its parameter list and its statements.
FromAst(fn_ast) ==
    [name |-> fn_ast.name,
     params |-> Join([i \in 1..Len(fn_ast.param_list) |-> ParamText(fn_ast.param_list[i])], ", "),
     statements |-> Join(fn_ast.statements, "")]

\* DojoContract::rewrite_statements
rewrite_statements(statement_list) ==
    Join(<<"let world = self.world_dispatcher.read();\n">> \o statement_list, "")

\* The diagnostics after rewrite_function's check of #[generate_trait]
\* (lines 470-478).
GenerateTraitChecked(rewritten, has_generate_trait) ==
    IF has_generate_trait /\ rewritten.was_world_injected
    THEN Append(rewritten.diagnostics,
                Diagnostic("You cannot use 'world' and '#[generate_trait]' together. Use 'self' instead.",
                           "Error"))
    ELSE rewritten.diagnostics

\* A rewrite that touches the parameters of the functions with a world only.
rewrite_function_world_only(diagnostics, fn_ast, has_generate_trait) ==
    CHOOSE the \in {
        [node |-> IF rewritten.was_world_injected
                  THEN [FromAst(fn_ast) EXCEPT
                            !.params = rewritten.params_str,
                            !.statements = rewrite_statements(fn_ast.statements)]
                  ELSE FromAst(fn_ast),
         diagnostics |-> GenerateTraitChecked(rewritten, has_generate_trait)]
        : rewritten \in {rewrite_parameters(diagnostics, fn_ast.param_list)}} : TRUE

\* DojoContract::rewrite_function: the rewritten function, and
\* self.diagnostics after the call.
rewrite_function(diagnostics, fn_ast, has_generate_trait) ==
    CHOOSE the \in {
        [node |-> IF rewritten.was_world_injected
                  THEN [FromAst(fn_ast) EXCEPT
                            !.params = rewritten.params_str,
                            !.statements = rewrite_statements(fn_ast.statements)]
                  ELSE [FromAst(fn_ast) EXCEPT !.params = rewritten.params_str],
         diagnostics |-> GenerateTraitChecked(rewritten, has_generate_trait)]
        : rewritten \in {rewrite_parameters(diagnostics, fn_ast.param_list)}} : TRUE

(***************************************************************************)
(* from_module: the attribute's arguments, the name check and the body.    *)
(* The text of a template is kept without its layout whitespace.           *)
(***************************************************************************)

\* str::contains
Contains(s, p) == \E i \in 1..(Len(s) + 1) : OccursAt(s, p, i)

\* An argument of the dojo::contract attribute: its clause, its name and the
\* expression of its value.
Arg(clause, name, kind, text) ==
    [clause |-> clause, name |-> name, value |-> [kind |-> kind, text |-> text]]

ArgUniverse ==
    { Arg("Named", "namespace", "String", "ns"),
      Arg("Named", "namespace", "ShortString", "b-d"),
      Arg("Named", "namespace", "Other", "42"),
      Arg("Named", "nm", "String", "x"),
      Arg("Unnamed", "", "Other", "y") }

ArgLists == UNION {[1..n -> ArgUniverse] : n \in 0..MaxArgs}

\* get_contract_namespace: the string of the namespace argument, or None and
\* an Error when the argument is no string.
get_contract_namespace(arg_value, diagnostics) ==
    IF arg_value.kind \in {"ShortString", "String"}
    THEN [namespace |-> Some(arg_value.text), diagnostics |-> diagnostics]
    ELSE [namespace |-> None,
          diagnostics |-> Append(diagnostics,
              Diagnostic("The argument 'namespace' of dojo::contract must be a string",
                         "Error"))]

\* The closure of the for_each of get_parameters on one argument: the names
\* seen, the parameters and the diagnostics after it.
ParametersArg(a, processed_args, parameters, diagnostics) ==
    LET unexpected == Diagnostic("Unexpected argument '"
                                 \o (IF a.clause = "Unnamed" THEN a.value.text ELSE a.name)
                                 \o "' for dojo::contract", "Warning")
    IN  IF a.clause # "Named"
        THEN [processed |-> processed_args, parameters |-> parameters,
              diagnostics |-> Append(diagnostics, unexpected)]
        ELSE IF a.name \in processed_args
        THEN [processed |-> processed_args, parameters |-> parameters,
              diagnostics |->
                  Append(diagnostics,
                         Diagnostic("Too many '" \o a.name
                                    \o "' attributes for dojo::contract", "Error"))]
        ELSE IF a.name = "namespace"
        THEN CHOOSE the \in {
                [processed |-> processed_args \cup {a.name},
                 parameters |-> [parameters EXCEPT !.namespace = got.namespace],
                 diagnostics |-> got.diagnostics]
                : got \in {get_contract_namespace(a.value, diagnostics)}} : TRUE
        ELSE [processed |-> processed_args \cup {a.name}, parameters |-> parameters,
              diagnostics |-> Append(diagnostics, unexpected)]

\* The for_each of get_parameters from the n-th argument on; processed_args
\* holds the names seen.
RECURSIVE ParametersLoop(_, _, _, _, _)
ParametersLoop(arguments, n, processed_args, parameters, diagnostics) ==
    IF n > Len(arguments)
    THEN [parameters |-> parameters, diagnostics |-> diagnostics]
    ELSE CHOOSE the \in {
            ParametersLoop(arguments, n + 1, after.processed, after.parameters,
                           after.diagnostics)
            : after \in {ParametersArg(arguments[n], processed_args, parameters,
                                       diagnostics)}} : TRUE

\* get_parameters: the ContractParameters of the attribute, and the
\* diagnostics of its arguments.
get_parameters(module_ast, diagnostics) ==
    ParametersLoop(module_ast.arguments, 1, {}, [namespace |-> None], diagnostics)

\* utils::is_name_valid: characters (a-z/A-Z), numbers (0-9) and underscore.
NameChars ==
    LET chars == "abcdefghijklmnopqrstuvwxyzABCDEFGHIJKLMNOPQRSTUVWXYZ0123456789_"
    IN  {SubSeq(chars, i, i) : i \in 1..Len(chars)}

is_name_valid(value) ==
    /\ value # ""
    /\ \A i \in 1..Len(value) : SubSeq(value, i, i) \in NameChars

\* The PluginResult of a name that is not valid (lines 58-69).
InvalidName(id, value) ==
    [code |-> None,
     diagnostics |-> <<Diagnostic("The contract " \o id \o " '" \o value
                                  \o "' can only contain characters (a-z/A-Z), "
                                  \o "numbers (0-9) and underscore (_)", "Error")>>,
     remove_original_item |-> FALSE]

\* A check that looks at the namespace before the name.
CheckNamesNamespaceFirst(name, contract_namespace) ==
    IF ~is_name_valid(contract_namespace) THEN Some(InvalidName("namespace", contract_namespace))
    ELSE IF ~is_name_valid(name) THEN Some(InvalidName("name", name))
    ELSE None

\* for (id, value) in [("name", ..), ("namespace", ..)] (lines 56-71): the
\* result returned for the first that is not valid, None when both are.
CheckNames(name, contract_namespace) ==
    IF ~is_name_valid(name) THEN Some(InvalidName("name", name))
    ELSE IF ~is_name_valid(contract_namespace)
    THEN Some(InvalidName("namespace", contract_namespace))
    ELSE None

\* compute_bytearray_hash: the selector of a name.
compute_bytearray_hash(value) == "0x#" \o value

\* An item of the module body.  members are the variants of an enum or the
\* members of a struct, each as it is written; fns is the body of an impl
\* (None when the impl has none); text is an item of another kind as written.
Item(kind, name, attributes, trait_path, members, fns, text) ==
    [kind |-> kind, name |-> name, attributes |-> attributes, trait_path |-> trait_path,
     members |-> members, fns |-> fns, text |-> text]

Enum(name, members) == Item("Enum", name, <<>>, "", members, None, "")
Struct(name, members) == Item("Struct", name, <<>>, "", members, None, "")
Impl(attributes, name, trait_path, fns) == Item("Impl", name, attributes, trait_path, <<>>, fns, "")
FreeFunction(fn_ast) == Item("FreeFunction", fn_ast.name, <<>>, "", <<>>, Some(<<fn_ast>>), "")
OtherItem(text) == Item("Other", "", <<>>, "", <<>>, None, text)

\* The text of a function whose parameters and statements are these.
FnText(node) == "fn " \o node.name \o "(" \o node.params \o ") { " \o node.statements \o "}"

\* The text of an impl whose body holds these functions.
ImplText(impl_ast, fn_nodes) ==
    Join(impl_ast.attributes, "") \o "impl " \o impl_ast.name \o " of " \o impl_ast.trait_path
    \o " { " \o Join([i \in 1..Len(fn_nodes) |-> FnText(fn_nodes[i])], " ") \o " }"

\* el.as_syntax_node().get_text(db): the item as it is written.
ItemText(el) ==
    CASE el.kind = "Enum" -> "enum " \o el.name \o " { " \o Join(el.members, ", ") \o " }"
      [] el.kind = "Struct" -> "struct " \o el.name \o " { " \o Join(el.members, ", ") \o " }"
      [] el.kind = "Impl" ->
            IF IsSome(el.fns)
            THEN ImplText(el, [i \in 1..Len(Unwrap(el.fns)) |-> FromAst(Unwrap(el.fns)[i])])
            ELSE Join(el.attributes, "") \o "impl " \o el.name \o " of " \o el.trait_path \o ";"
      [] el.kind = "FreeFunction" -> FnText(FromAst(Unwrap(el.fns)[1]))
      [] OTHER -> el.text

\* RewriteNode::Copied(el.as_syntax_node())
Copied(el) == ItemText(el)

\* DojoContract::merge_event
merge_event(enum_ast) ==
    "#[event] #[derive(Drop, starknet::Event)] enum Event { "
    \o "UpgradeableEvent: dojo::components::upgradeable::upgradeable::Event, "
    \o Join(enum_ast.members, ",\n") \o " }"

\* DojoContract::create_event
create_event ==
    "#[event] #[derive(Drop, starknet::Event)] enum Event { "
    \o "UpgradeableEvent: dojo::components::upgradeable::upgradeable::Event, }"

\* DojoContract::merge_storage
merge_storage(struct_ast) ==
    "#[storage] struct Storage { world_dispatcher: IWorldDispatcher, #[substorage(v0)] "
    \o "upgradeable: dojo::components::upgradeable::upgradeable::Storage, "
    \o Join(struct_ast.members, ",\n") \o " }"

\* DojoContract::create_storage
create_storage ==
    "#[storage] struct Storage { world_dispatcher: IWorldDispatcher, #[substorage(v0)] "
    \o "upgradeable: dojo::components::upgradeable::upgradeable::Storage, }"

\* The IDojoInit interface and impl of handle_init_fn's template.
InitText(name, params_str, world_read, body) ==
    "#[starknet::interface] trait IDojoInit<ContractState> { fn " \o name \o "("
    \o params_str \o "); } #[abi(embed_v0)] impl IDojoInitImpl of IDojoInit<ContractState> { fn "
    \o name \o "(" \o params_str \o ") { " \o world_read
    \o " assert(starknet::get_caller_address() == self.world().contract_address, "
    \o "'Only world can init'); " \o body \o " } }"

\* DojoContract::handle_init_fn: the node, and self.diagnostics after it.
handle_init_fn(diagnostics, fn_ast) ==
    CHOOSE the \in {
        [node |-> InitText(fn_ast.name, rewritten.params_str,
                           IF rewritten.was_world_injected
                           THEN "let world = self.world_dispatcher.read();" ELSE "",
                           "{ " \o Join(fn_ast.statements, "") \o "}"),
         diagnostics |-> rewritten.diagnostics]
        : rewritten \in {rewrite_parameters(diagnostics, fn_ast.param_list)}} : TRUE

\* The node from_module adds when the module declares no dojo_init (lines 113-135).
DefaultInit ==
    "#[starknet::interface] trait IDojoInit<ContractState> { fn dojo_init(self: @ContractState); } "
    \o "#[abi(embed_v0)] impl IDojoInitImpl of IDojoInit<ContractState> { "
    \o "fn dojo_init(self: @ContractState) { "
    \o "assert(starknet::get_caller_address() == self.world().contract_address, "
    \o "'Only world can init'); } }"

\* The flat_map of rewrite_impl over the functions of the body, from the
\* n-th on.
RECURSIVE ImplLoop(_, _, _, _, _)
ImplLoop(diagnostics, fns, has_generate_trait, n, body_nodes) ==
    IF n > Len(fns) THEN [nodes |-> body_nodes, diagnostics |-> diagnostics]
    ELSE CHOOSE the \in {
            ImplLoop(rewritten.diagnostics, fns, has_generate_trait, n + 1,
                     Append(body_nodes, rewritten.node))
            : rewritten \in {rewrite_function(diagnostics, fns[n], has_generate_trait)}} : TRUE

\* impl_ast.attributes(db).query_attr(db, "generate_trait") is not empty.
HasGenerateTrait(impl_ast) ==
    \E i \in 1..Len(impl_ast.attributes) : Contains(impl_ast.attributes[i], "generate_trait")

\* DojoContract::rewrite_impl
rewrite_impl(diagnostics, impl_ast) ==
    IF IsSome(impl_ast.fns)
    THEN CHOOSE the \in {
            [node |-> ImplText(impl_ast, body.nodes), diagnostics |-> body.diagnostics]
            : body \in {ImplLoop(diagnostics, Unwrap(impl_ast.fns),
                                 HasGenerateTrait(impl_ast), 1, <<>>)}} : TRUE
    ELSE [node |-> Copied(impl_ast), diagnostics |-> diagnostics]

\* The closure of the flat_map of from_module on one item (lines 81-110):
\* acc after it.
BodyItem(el, acc) ==
    IF el.kind = "Enum" /\ el.name = "Event"
    THEN [acc EXCEPT !.has_event = TRUE,
                     !.body_nodes = Append(@, merge_event(el))]
    ELSE IF el.kind = "Struct" /\ el.name = "Storage"
    THEN [acc EXCEPT !.has_storage = TRUE,
                     !.body_nodes = Append(@, merge_storage(el))]
    ELSE IF el.kind = "Impl" /\ Contains(el.trait_path, "<ContractState>")
    THEN CHOOSE the \in {
            [acc EXCEPT !.diagnostics = rewritten.diagnostics,
                        !.body_nodes = Append(@, rewritten.node)]
            : rewritten \in {rewrite_impl(acc.diagnostics, el)}} : TRUE
    ELSE IF el.kind = "FreeFunction" /\ el.name = "dojo_init"
    THEN CHOOSE the \in {
            [acc EXCEPT !.has_init = TRUE,
                        !.diagnostics = init.diagnostics,
                        !.body_nodes = Append(@, init.node)]
            : init \in {handle_init_fn(acc.diagnostics, Unwrap(el.fns)[1])}} : TRUE
    ELSE [acc EXCEPT !.body_nodes = Append(@, Copied(el))]

\* The flat_map of from_module over the items of the body (lines 77-111),
\* from the n-th on; acc holds the nodes made so far, the three flags and
\* system.diagnostics.
RECURSIVE BodyLoop(_, _, _)
BodyLoop(elements, n, acc) ==
    IF n > Len(elements) THEN acc
    ELSE CHOOSE the \in {
            BodyLoop(elements, n + 1, after)
            : after \in {BodyItem(elements[n], acc)}} : TRUE

\* Defaults that are appended whatever the module declares.
AppendDefaultsAlways(body_nodes, has_init, has_event, has_storage) ==
    body_nodes \o <<DefaultInit, create_event, create_storage>>

\* if !has_init { .. } if !has_event { .. } if !has_storage { .. } (lines 113-143)
AppendDefaults(body_nodes, has_init, has_event, has_storage) ==
    body_nodes
    \o (IF ~has_init THEN <<DefaultInit>> ELSE <<>>)
    \o (IF ~has_event THEN <<create_event>> ELSE <<>>)
    \o (IF ~has_storage THEN <<create_storage>> ELSE <<>>)

\* A module under the dojo::contract attribute: its name, the arguments of
\* the attribute, and the items of its body (None for `mod name;`).
ItemModule(name, arguments, body) == [name |-> name, arguments |-> arguments, body |-> body]

\* PluginResult::default()
DefaultResult == [code |-> None, diagnostics |-> <<>>, remove_original_item |-> FALSE]

\* The PluginResult of a module with a body (lines 113-228), for the nodes,
\* the flags and the diagnostics of its items.
GeneratedResult(name, contract_namespace, system) ==
    [code |-> Some([name |-> name,
                    content |-> [name |-> name,
                                 contract_name_selector |-> compute_bytearray_hash(name),
                                 contract_namespace |-> contract_namespace,
                                 contract_namespace_selector |->
                                     compute_bytearray_hash(contract_namespace),
                                 body |-> AppendDefaults(system.body_nodes, system.has_init,
                                                         system.has_event, system.has_storage)],
                    aux_data |-> [name |-> name,
                                  namespace |-> contract_namespace,
                                  dependencies |-> <<>>]]),
     diagnostics |-> system.diagnostics,
     remove_original_item |-> TRUE]

\* from_module once the attribute's parameters are read (lines 45-231).
FromModuleWith(module_ast, package_id, got) ==
    LET name == module_ast.name
        contract_namespace == IF IsSome(got.parameters.namespace)
                              THEN Unwrap(got.parameters.namespace)
                              ELSE package_id
    IN  IF IsSome(CheckNames(name, contract_namespace))
        THEN Unwrap(CheckNames(name, contract_namespace))
        ELSE IF IsSome(module_ast.body)
        THEN CHOOSE the \in {
                GeneratedResult(name, contract_namespace, system)
                : system \in {BodyLoop(Unwrap(module_ast.body), 1,
                                       [body_nodes |-> <<>>, has_event |-> FALSE,
                                        has_storage |-> FALSE, has_init |-> FALSE,
                                        diagnostics |-> got.diagnostics])}} : TRUE
        ELSE DefaultResult

\* DojoContract::from_module
from_module(module_ast, package_id) ==
    CHOOSE the \in {
        FromModuleWith(module_ast, package_id, got)
        : got \in {get_parameters(module_ast, <<>>)}} : TRUE

(***************************************************************************)
(* SpecContract: the plugin's operations applied to bounded syntax.        *)
(***************************************************************************)

\* self.diagnostics when an operation starts: nothing yet, or a warning of
\* the attribute's arguments.
EarlierDiagnostics ==
    { <<>>, <<Diagnostic("Unexpected argument 'x' for dojo::contract", "Warning")>> }

ParameterCalls ==
    { [op |-> "rewrite_parameters", diagnostics |-> diagnostics, param_list |-> param_list]
      : diagnostics \in EarlierDiagnostics, param_list \in ParamLists }

FunctionCalls ==
    { [op |-> "rewrite_function", diagnostics |-> diagnostics,
       fn_ast |-> FunctionWithBody("spawn", param_list, statements),
       has_generate_trait |-> has_generate_trait]
      : diagnostics \in EarlierDiagnostics, param_list \in ParamLists,
        statements \in { <<>>, <<"let a = 1;\n", "world.emit(a);\n">> },
        has_generate_trait \in BOOLEAN }

\* The items a module body is written with.
ItemUniverse ==
    { Enum("Event", <<"Moved: Moved">>),
      Enum("Direction", <<"Left", "Right">>),
      Struct("Storage", <<"count: u8">>),
      Struct("Position", <<"x: u8">>),
      Impl(<<"#[abi(embed_v0)] ">>, "ActionsImpl", "IActions<ContractState>",
           Some(<<FunctionWithBody("spawn", <<Param(<<>>, "world", "@IWorldDispatcher")>>,
                                   <<"world.emit(1);\n">>),
                  FunctionWithBody("count", <<Param(<<>>, "a", "felt252")>>, <<>>)>>)),
      Impl(<<>>, "PositionImpl", "PositionTrait",
           Some(<<FunctionWithBody("is_zero", <<Param(<<>>, "a", "felt252")>>, <<>>)>>)),
      FreeFunction(FunctionWithBody("dojo_init",
                                    <<Param(<<>>, "world", "@IWorldDispatcher"),
                                      Param(<<>>, "a", "felt252")>>,
                                    <<"world.emit(a);\n">>)),
      FreeFunction(FunctionWithBody("helper", <<Param(<<>>, "a", "felt252")>>, <<>>)),
      OtherItem("use starknet::ContractAddress;") }

ItemLists == UNION {[1..n -> ItemUniverse] : n \in 0..MaxItems}

\* The modules the plugin is run on: the ones that vary the name, the
\* attribute's arguments and the package, and the ones that vary the body.
ModuleCalls ==
    { [op |-> "from_module", module_ast |-> ItemModule(name, arguments, body),
       package_id |-> package_id]
      : name \in {"actions", "bad-name"}, arguments \in ArgLists,
        body \in {None, Some(<<>>)}, package_id \in {"pkg", "my-pkg"} }
    \cup
    { [op |-> "from_module", module_ast |-> ItemModule("actions", <<>>, Some(items)),
       package_id |-> "pkg"]
      : items \in ItemLists }

RewriteParameters ==
    /\ contract_pc = "input"
    /\ contract_in.op = "rewrite_parameters"
    /\ contract_out' = rewrite_parameters(contract_in.diagnostics, contract_in.param_list)
    /\ contract_pc' = "done"
    /\ UNCHANGED <<contract_in, tn_vars, sub_vars, query_vars>>

RewriteFunction ==
    /\ contract_pc = "input"
    /\ contract_in.op = "rewrite_function"
    /\ contract_out' = rewrite_function(contract_in.diagnostics, contract_in.fn_ast,
                                        contract_in.has_generate_trait)
    /\ contract_pc' = "done"
    /\ UNCHANGED <<contract_in, tn_vars, sub_vars, query_vars>>

FromModule ==
    /\ contract_pc = "input"
    /\ contract_in.op = "from_module"
    /\ contract_out' = from_module(contract_in.module_ast, contract_in.package_id)
    /\ contract_pc' = "done"
    /\ UNCHANGED <<contract_in, tn_vars, sub_vars, query_vars>>

InitContract ==
    /\ contract_in \in ParameterCalls \cup FunctionCalls \cup ModuleCalls
    /\ contract_out = <<>>
    /\ contract_pc = "input"
    /\ tn_path = <<>>
    /\ tn_table = ""
    /\ tn_pc = "off"
    /\ published = <<>>
    /\ subs = <<>>
    /\ db = <<>>
    /\ call = <<>>
    /\ result = <<>>

NextContract ==
    \/ RewriteParameters
    \/ RewriteFunction
    \/ FromModule

SpecContract == InitContract /\ [][NextContract]_vars

(***************************************************************************)
(* C11, C16, C17: the parameters and the body of a rewritten function.     *)
(***************************************************************************)

\* rewrite_parameters has run on a parameter list.
ParametersRewritten == contract_pc = "done" /\ contract_in.op = "rewrite_parameters"

\* The world parameter stands first in the list.
WorldFirst(param_list) ==
    /\ param_list # <<>>
    /\ is_world_param(param_list[1].name, param_list[1].type)

\* The injection kind the first parameter asks for.
KindOf(param_list) ==
    IF ~WorldFirst(param_list) THEN "None"
    ELSE IF param_list[1].modifiers = <<"ref">> THEN "External"
    ELSE "View"

\* A parameter named self is written in the list.
SelfWritten(param_list) == \E i \in 1..Len(param_list) : param_list[i].name = "self"

\* The self parameter put first for a list.
SelfFor(param_list) ==
    CASE KindOf(param_list) = "External" -> <<"ref self: ContractState">>
      [] KindOf(param_list) = "View" -> <<"self: @ContractState">>
      [] OTHER -> IF param_list # <<>> /\ param_list[1].name = "self"
                  THEN <<>> ELSE <<"self: @ContractState">>

\* The parameters as written, the world parameter left out where it stands first.
WithoutFirstWorld(param_list) ==
    LET kept == IF WorldFirst(param_list) THEN Tail(param_list) ELSE param_list
    IN  [i \in 1..Len(kept) |-> ParamText(kept[i])]

\* C11: rewrite_parameters returns the list in which the world parameter is
\* removed only when it is the first parameter and a self parameter is put
\* first according to the injection kind (self: @ContractState for View and
\* for None without explicit self, ref self: ContractState for External,
\* none added for None with explicit self), and the boolean is true exactly
\* when the kind is not None.
C11_ParameterList ==
    ParametersRewritten =>
        /\ contract_out.params_str
              = Join(SelfFor(contract_in.param_list) \o WithoutFirstWorld(contract_in.param_list),
                     ", ")
        /\ contract_out.was_world_injected <=> KindOf(contract_in.param_list) # "None"

\* The Error diagnostics an operation has added to those it started with.
ErrorsAdded ==
    LET added == SubSeq(contract_out.diagnostics, Len(contract_in.diagnostics) + 1,
                        Len(contract_out.diagnostics))
    IN  SelectSeq(added, LAMBDA d : d.severity = "Error")

\* C16: rewrite_parameters reports an Error diagnostic whenever self is used
\* explicitly in the parameter list, with or without a world parameter.
C16_SelfReported ==
    (ParametersRewritten /\ SelfWritten(contract_in.param_list)) => ErrorsAdded # <<>>

\* rewrite_function has run on a function.
FunctionRewritten == contract_pc = "done" /\ contract_in.op = "rewrite_function"

\* The diagnostics of using world under #[generate_trait] among those added.
GenerateTraitErrors ==
    SelectSeq(ErrorsAdded,
              LAMBDA d : d.message
                  = "You cannot use 'world' and '#[generate_trait]' together. Use 'self' instead.")

\* C17: rewrite_function replaces the parameter list with the output of
\* rewrite_parameters in every case; it puts the statement
\* `let world = self.world_dispatcher.read();` before the statements of the
\* body exactly when the world was injected, and leaves the statements as
\* they are otherwise; it adds the Error diagnostic exactly when the world
\* was injected and the impl has #[generate_trait].
C17_FunctionRewritten ==
    FunctionRewritten =>
        LET fn_ast == contract_in.fn_ast
            injected == WorldFirst(fn_ast.param_list)
        IN  /\ contract_out.node.params
                  = rewrite_parameters(contract_in.diagnostics, fn_ast.param_list).params_str
            /\ contract_out.node.params
                  = Join(SelfFor(fn_ast.param_list) \o KeptParams(fn_ast.param_list), ", ")
            /\ contract_out.node.statements
                  = (IF injected THEN "let world = self.world_dispatcher.read();\n" ELSE "")
                    \o Join(fn_ast.statements, "")
            /\ Len(GenerateTraitErrors)
                  = (IF injected /\ contract_in.has_generate_trait THEN 1 ELSE 0)

\* A function of a #[generate_trait] impl, with the world first, other
\* parameters and a body, was rewritten.
C17_Witness ==
    /\ FunctionRewritten
    /\ contract_in.fn_ast.statements # <<>>
    /\ WorldFirst(contract_in.fn_ast.param_list)
    /\ contract_in.has_generate_trait
    /\ Len(contract_in.fn_ast.param_list) > 1
    /\ GenerateTraitErrors # <<>>

(***************************************************************************)
(* C18: the module whose name or namespace is not valid.                   *)
(***************************************************************************)

\* from_module has run on a module.
ModuleDone == contract_pc = "done" /\ contract_in.op = "from_module"

\* The namespace the attribute gives: the string of its first argument
\* named namespace, None when there is none or when it is no string.
NamespaceGiven(arguments) ==
    LET named == {i \in 1..Len(arguments) :
                     arguments[i].clause = "Named" /\ arguments[i].name = "namespace"}
    IN  IF named = {} THEN None
        ELSE LET first == CHOOSE i \in named : \A j \in named : i <= j
             IN  IF arguments[first].value.kind \in {"String", "ShortString"}
                 THEN Some(arguments[first].value.text)
                 ELSE None

\* The effective namespace of the module from_module ran on.
EffectiveNamespace ==
    IF IsSome(NamespaceGiven(contract_in.module_ast.arguments))
    THEN Unwrap(NamespaceGiven(contract_in.module_ast.arguments))
    ELSE contract_in.package_id

\* The id and the value the diagnostic of an invalid module names.
Offending ==
    IF ~is_name_valid(contract_in.module_ast.name)
    THEN [id |-> "name", value |-> contract_in.module_ast.name]
    ELSE [id |-> "namespace", value |-> EffectiveNamespace]

\* C18: when the contract name or the effective namespace (the namespace
\* attribute if given, else the package id) fails is_name_valid, from_module
\* returns no generated code, exactly one diagnostic, an Error that names
\* the offending id (the name before the namespace) and its value, and
\* remove_original_item = false; the diagnostics of the attribute's
\* arguments are not in the result.
C18_InvalidNames ==
    (/\ ModuleDone
     /\ \/ ~is_name_valid(contract_in.module_ast.name)
        \/ ~is_name_valid(EffectiveNamespace))
    => /\ ~IsSome(contract_out.code)
       /\ Len(contract_out.diagnostics) = 1
       /\ contract_out.diagnostics[1].severity = "Error"
       /\ Contains(contract_out.diagnostics[1].message,
                   "The contract " \o Offending.id \o " '" \o Offending.value \o "' ")
       /\ contract_out.remove_original_item = FALSE

\* A module with a valid name, whose attribute gives a namespace that is not
\* valid after an argument that raised a diagnostic, went through
\* from_module.
C18_Witness ==
    /\ ModuleDone
    /\ is_name_valid(contract_in.module_ast.name)
    /\ IsSome(NamespaceGiven(contract_in.module_ast.arguments))
    /\ ~is_name_valid(EffectiveNamespace)
    /\ get_parameters(contract_in.module_ast, <<>>).diagnostics # <<>>
    /\ Len(contract_out.diagnostics) = 1

(***************************************************************************)
(* C19: the body from_module generates.                                    *)
(***************************************************************************)

\* from_module has run on a module with a body, a valid name and a valid
\* namespace.
ModuleGenerated ==
    /\ ModuleDone
    /\ IsSome(contract_in.module_ast.body)
    /\ is_name_valid(contract_in.module_ast.name)
    /\ is_name_valid(EffectiveNamespace)

\* The items the user wrote, and the nodes of the generated body.
UserItems == Unwrap(contract_in.module_ast.body)
GeneratedBody == Unwrap(contract_out.code).content.body

\* What an item of the user declares.
DeclaresInit(el) == el.kind = "FreeFunction" /\ el.name = "dojo_init"
DeclaresEvent(el) == el.kind = "Enum" /\ el.name = "Event"
DeclaresStorage(el) == el.kind = "Struct" /\ el.name = "Storage"
Declares(part, el) ==
    CASE part = "init" -> DeclaresInit(el)
      [] part = "event" -> DeclaresEvent(el)
      [] part = "storage" -> DeclaresStorage(el)

\* An impl whose trait path targets the ContractState.
TargetsContractState(el) == el.kind = "Impl" /\ Contains(el.trait_path, "<ContractState>")

\* What a node of the generated body is.
IsInitNode(node) ==
    /\ Contains(node, "trait IDojoInit<ContractState> {")
    /\ Contains(node, "impl IDojoInitImpl of IDojoInit<ContractState> {")
IsEventNode(node) ==
    /\ Contains(node, "enum Event {")
    /\ Contains(node, "UpgradeableEvent: ")
IsStorageNode(node) ==
    /\ Contains(node, "struct Storage {")
    /\ Contains(node, "world_dispatcher: IWorldDispatcher")
    /\ Contains(node, "upgradeable: ")
IsNode(part, node) ==
    CASE part = "init" -> IsInitNode(node)
      [] part = "event" -> IsEventNode(node)
      [] part = "storage" -> IsStorageNode(node)

\* The parts the user declared none of, in the order init, event, storage.
Undeclared ==
    LET missing(part) == IF \E i \in 1..Len(UserItems) : Declares(part, UserItems[i])
                         THEN <<>> ELSE <<part>>
    IN  missing("init") \o missing("event") \o missing("storage")

\* The body holds an IDojoInit interface and impl, an Event enum with the
\* UpgradeableEvent variant and a Storage struct with the two members.
HasAllParts ==
    \A part \in {"init", "event", "storage"} :
        \E i \in 1..Len(GeneratedBody) : IsNode(part, GeneratedBody[i])

\* The node of a dojo_init, an Event or a Storage of the user stands where
\* the item stood, is of its kind and keeps what the user wrote in it.
UserPartsRewritten ==
    \A i \in 1..Len(UserItems) :
        LET el == UserItems[i]
        IN  /\ DeclaresInit(el) =>
                  /\ IsInitNode(GeneratedBody[i])
                  /\ Contains(GeneratedBody[i], Join(Unwrap(el.fns)[1].statements, ""))
            /\ DeclaresEvent(el) =>
                  /\ IsEventNode(GeneratedBody[i])
                  /\ \A m \in 1..Len(el.members) : Contains(GeneratedBody[i], el.members[m])
            /\ DeclaresStorage(el) =>
                  /\ IsStorageNode(GeneratedBody[i])
                  /\ \A m \in 1..Len(el.members) : Contains(GeneratedBody[i], el.members[m])

\* After the nodes of the items come the defaults, one for each part the
\* user declared none of and no other, none of them holding a member or a
\* statement of the user.
DefaultsAppended ==
    /\ Len(GeneratedBody) = Len(UserItems) + Len(Undeclared)
    /\ \A k \in 1..Len(Undeclared) :
          /\ IsNode(Undeclared[k], GeneratedBody[Len(UserItems) + k])
          /\ \A other \in {"init", "event", "storage"} \ {Undeclared[k]} :
                ~IsNode(other, GeneratedBody[Len(UserItems) + k])

\* Every part occurs as often as the user declared it, and once when they
\* declared none: no default stands alongside a declared one.
NoDefaultAlongside ==
    \A part \in {"init", "event", "storage"} :
        LET declared == {i \in 1..Len(UserItems) : Declares(part, UserItems[i])}
            nodes == {i \in 1..Len(GeneratedBody) : IsNode(part, GeneratedBody[i])}
        IN  Cardinality(nodes) = IF declared = {} THEN 1 ELSE Cardinality(declared)

\* An item that is no dojo_init, Event or Storage.
OtherItems == {i \in 1..Len(UserItems) :
                  \A part \in {"init", "event", "storage"} : ~Declares(part, UserItems[i])}

====
